---- MODULE Spec2Model ----
(***************************************************************************)
(* gitops-replacer: the marker based value patcher (replace_marked_value)  *)
(* and the two phase batch run of main() (precheck, then apply).           *)
(*                                                                         *)
(* Text is modelled as it is in the program: a string is a sequence of     *)
(* one-character strings, a file's content is one such sequence with a     *)
(* newline between its lines, and the two regular expressions of the       *)
(* program are matched character by character.                             *)
(***************************************************************************)
EXTENDS Integers, Sequences, FiniteSets, TLC

(***************************************************************************)
(* Character classes of Python's re for the characters the model uses.     *)
(***************************************************************************)
Letters ==
    {"a","b","c","d","e","f","g","h","i","j","k","l","m",
     "n","o","p","q","r","s","t","u","v","w","x","y","z"}

Digits == {"0","1","2","3","4","5","6","7","8","9"}

\* \s
IsSpace(c) == c \in {" ", "\t", "\n", "\r", "\f"}

\* \w
IsWord(c) == c \in Letters \cup Digits \cup {"_"}

\* [\w-]
IsKeyChar(c) == IsWord(c) \/ c = "-"

\* the class of the two quote characters (double, single)
IsQuote(c) == c \in {"\"", "'"}

\* group 3's class: any character but a quote, '#' or a newline
IsValueChar(c) == c \notin {"\"", "'", "#", "\n"}

\* The literal part of MARKER_PATTERN (line 31).
MARKER_PATTERN == <<"g","i","t","o","p","s","-","r","e","p","l","a","c","e","r",":">>

\* Python's None, for old_value and for a failed match.
None == [some |-> FALSE, val |-> <<>>]

Some(v) == [some |-> TRUE, val |-> v]

(***************************************************************************)
(* Greedy runs: the first index at or after i whose character is outside   *)
(* the class (Len(s)+1 when the run reaches the end of s).                 *)
(***************************************************************************)
RECURSIVE skip_space(_, _)
skip_space(s, i) ==
    IF i <= Len(s) /\ IsSpace(s[i]) THEN skip_space(s, i + 1) ELSE i

RECURSIVE skip_nonspace(_, _)
skip_nonspace(s, i) ==
    IF i <= Len(s) /\ ~IsSpace(s[i]) THEN skip_nonspace(s, i + 1) ELSE i

RECURSIVE skip_key(_, _)
skip_key(s, i) ==
    IF i <= Len(s) /\ IsKeyChar(s[i]) THEN skip_key(s, i + 1) ELSE i

RECURSIVE skip_value(_, _)
skip_value(s, i) ==
    IF i <= Len(s) /\ IsValueChar(s[i]) THEN skip_value(s, i + 1) ELSE i

\* s[i..] (empty when i is past the end)
from(s, i) == SubSeq(s, i, Len(s))

\* str.rstrip()
RECURSIVE rstrip(_)
rstrip(s) ==
    IF Len(s) > 0 /\ IsSpace(s[Len(s)]) THEN rstrip(SubSeq(s, 1, Len(s) - 1)) ELSE s

\* content.split(newline): always at least one line, lines hold no newline
RECURSIVE split_from(_, _, _, _)
split_from(s, i, cur, acc) ==
    IF i > Len(s) THEN Append(acc, cur)
    ELSE IF s[i] = "\n" THEN split_from(s, i + 1, <<>>, Append(acc, cur))
    ELSE split_from(s, i + 1, Append(cur, s[i]), acc)

split(content) == split_from(content, 1, <<>>, <<>>)

\* newline.join(result)
RECURSIVE join(_)
join(lines) ==
    IF Len(lines) = 0 THEN <<>>
    ELSE IF Len(lines) = 1 THEN lines[1]
    ELSE lines[1] \o <<"\n">> \o join(Tail(lines))

(***************************************************************************)
(* re.search(MARKER_PATTERN, line), lines 31 and 66: the leftmost '#' that *)
(* is followed by blanks, the literal gitops-replacer and a colon, blanks, *)
(* and one or more non-blank characters; group(1) is the maximal run of    *)
(* non-blank characters. Blanks, the literal and non-blanks are disjoint   *)
(* classes, so at each '#' the greedy attempt is the only one.             *)
(***************************************************************************)
\* the match that starts at the '#' at i, where j is the end of the blanks
\* after it and k the end of the blanks after the literal
marker_from(line, i, j, k) ==
    IF /\ line[i] = "#"
       /\ j + Len(MARKER_PATTERN) - 1 <= Len(line)
       /\ SubSeq(line, j, j + Len(MARKER_PATTERN) - 1) = MARKER_PATTERN
       /\ k <= Len(line)
    THEN Some(SubSeq(line, k, skip_nonspace(line, k) - 1))
    ELSE None

marker_after(line, i, j) ==
    marker_from(line, i, j, skip_space(line, j + Len(MARKER_PATTERN)))

marker_at(line, i) == marker_after(line, i, skip_space(line, i + 1))

RECURSIVE marker_search_from(_, _)
first_marker(line, i, m) ==
    IF m.some THEN m ELSE marker_search_from(line, i + 1)

marker_search_from(line, i) ==
    IF i > Len(line) THEN None ELSE first_marker(line, i, marker_at(line, i))

marker_search(line) == marker_search_from(line, 1)

\* line 67 with startswith in place of ==
names_by_prefix(match, dep_name) ==
    /\ match.some
    /\ Len(match.val) >= Len(dep_name)
    /\ SubSeq(match.val, 1, Len(dep_name)) = dep_name

\* line 67: match and match.group(1) == dep_name
names(match, dep_name) == match.some /\ match.val = dep_name

is_marker(line, dep_name) == names(marker_search(line), dep_name)

(***************************************************************************)
(* re.match(value_pattern, line), line 78. The pattern is, in order:       *)
(*   group 1: blanks, an optional dash followed by one or more blanks, one *)
(*            or more key characters, a colon, blanks;                     *)
(*   group 2: an optional quote character;                                 *)
(*   group 3: any run of characters other than quotes, '#' and newline;    *)
(*   group 4: an optional quote character;                                 *)
(*   group 5: optionally, blanks, '#' and the rest of the line;            *)
(*   the end of the line.                                                  *)
(* Every quantifier is greedy and is followed by a character outside its   *)
(* own class or by an optional group that the greedy choice never blocks,  *)
(* so the first successful path of the backtracking matcher is the greedy  *)
(* one; the groups are those of that path.                                 *)
(***************************************************************************)
NoMatch ==
    [ok |-> FALSE, prefix |-> <<>>, quote_open |-> <<>>, value |-> <<>>,
     quote_close |-> <<>>, suffix |-> <<>>]

\* The groups, from the positions the greedy match reaches: q ends group 1,
\* v0 starts group 3, r ends it, c0 starts group 5.
value_groups(line, q, v0, r, c0) ==
    [ok |-> TRUE,
     prefix |-> SubSeq(line, 1, q - 1),
     quote_open |-> SubSeq(line, q, v0 - 1),
     value |-> SubSeq(line, v0, r - 1),
     quote_close |-> SubSeq(line, r, c0 - 1),
     suffix |-> from(line, c0)]

\* group 5 and the end of the line: nothing is left, or blanks and a '#'
value_tail(line, q, v0, r, c0, c1) ==
    IF c0 > Len(line) \/ (c1 <= Len(line) /\ line[c1] = "#")
    THEN value_groups(line, q, v0, r, c0)
    ELSE NoMatch

\* group 4: the quote at r, if there is one
value_close(line, q, v0, r, c0) ==
    value_tail(line, q, v0, r, c0, skip_space(line, c0))

value_end(line, q, v0, r) ==
    value_close(line, q, v0, r,
                IF r <= Len(line) /\ IsQuote(line[r]) THEN r + 1 ELSE r)

\* group 3 from v0
value_run(line, q, v0) == value_end(line, q, v0, skip_value(line, v0))

\* group 2: the quote at q, if there is one
value_open(line, q) ==
    value_run(line, q, IF q <= Len(line) /\ IsQuote(line[q]) THEN q + 1 ELSE q)

\* the key from k0 to k1, the colon at k1 and the blanks after it
value_key(line, k0, k1) ==
    IF k1 > k0 /\ k1 <= Len(line) /\ line[k1] = ":"
    THEN value_open(line, skip_space(line, k1 + 1))
    ELSE NoMatch

value_dash(line, k0) == value_key(line, k0, skip_key(line, k0))

\* after the leading blanks, which end at p: the optional dash and its blanks
value_indent(line, p) ==
    value_dash(line,
               IF p + 1 <= Len(line) /\ line[p] = "-" /\ IsSpace(line[p + 1])
               THEN skip_space(line, p + 1) ELSE p)

value_match(line) == value_indent(line, skip_space(line, 1))

(***************************************************************************)
(* replace_marked_value (lines 51-93).                                     *)
(***************************************************************************)
\* line 88: f'{prefix}{quote_open}{new_value}{quote_close}{suffix}'
rebuild_line(m, new_value) ==
    m.prefix \o m.quote_open \o new_value \o m.quote_close \o m.suffix

\* value_line_result with the flag cleared only by a line that matches
value_line_result_keeps_looking(st, line, new_value, m, old) ==
    [result       |-> Append(st.result,
                             IF m.ok /\ old # new_value
                             THEN rebuild_line(m, new_value) ELSE line),
     replace_next |-> ~m.ok,
     old_value    |-> IF m.ok THEN Some(old) ELSE st.old_value,
     changed      |-> st.changed \/ (m.ok /\ old # new_value)]

\* lines 80-91: value_match is m, old is its group 3 stripped
value_line_result(st, line, new_value, m, old) ==
    [result       |-> Append(st.result,
                             IF m.ok /\ old # new_value
                             THEN rebuild_line(m, new_value) ELSE line),
     replace_next |-> FALSE,
     old_value    |-> IF m.ok THEN Some(old) ELSE st.old_value,
     changed      |-> st.changed \/ (m.ok /\ old # new_value)]

value_line_match(st, line, new_value, m) ==
    value_line_result(st, line, new_value, m, rstrip(m.value))

\* lines 72-91: the line after a marker; st is the loop's state before it
value_line_step(st, line, new_value) ==
    value_line_match(st, line, new_value, value_match(line))

\* line_step with only the first marker honoured: once a value has been
\* captured, later markers are ordinary lines
line_step_first_only(st, line, dep_name, new_value) ==
    IF is_marker(line, dep_name) /\ ~st.old_value.some
    THEN [st EXCEPT !.replace_next = TRUE, !.result = Append(@, line)]
    ELSE IF st.replace_next
    THEN value_line_step(st, line, new_value)
    ELSE [st EXCEPT !.result = Append(@, line)]

\* lines 64-91: one iteration of the loop over the lines
line_step(st, line, dep_name, new_value) ==
    IF is_marker(line, dep_name)
    THEN [st EXCEPT !.replace_next = TRUE, !.result = Append(@, line)]
    ELSE IF st.replace_next
    THEN value_line_step(st, line, new_value)
    ELSE [st EXCEPT !.result = Append(@, line)]

RECURSIVE scan_lines(_, _, _, _, _)
scan_lines(lines, i, st, dep_name, new_value) ==
    IF i > Len(lines) THEN st
    ELSE scan_lines(lines, i + 1, line_step(st, lines[i], dep_name, new_value),
                    dep_name, new_value)

\* line 93
patch_result(st) ==
    [content |-> join(st.result), old_value |-> st.old_value, changed |-> st.changed]

\* lines 58-91: the loop's state after the last line
scan(content, dep_name, new_value) ==
    scan_lines(split(content), 1,
               [result |-> <<>>, replace_next |-> FALSE,
                old_value |-> None, changed |-> FALSE],
               dep_name, new_value)

replace_marked_value(content, dep_name, new_value) ==
    patch_result(scan(content, dep_name, new_value))

(***************************************************************************)
(* Input lines for the patcher: markers, value lines in every supported    *)
(* shape, and lines the value pattern refuses.                             *)
(***************************************************************************)
\* # gitops-replacer: n   -- a marker for n
MarkerN == <<"#", " ">> \o MARKER_PATTERN \o <<" ", "n">>

\* #gitops-replacer:nn   -- a marker whose name only starts with n, no blanks
MarkerNN == <<"#">> \o MARKER_PATTERN \o <<"n", "n">>

\*   # gitops-replacer: m   -- a marker for another name, indented
MarkerM == <<" ", " ", "#", " ">> \o MARKER_PATTERN \o <<" ", "m">>

\* k: v # gitops-replacer: n   -- a value line that carries a marker for n in its comment
MarkerTail == <<"k", ":", " ", "v", " ", "#", " ">> \o MARKER_PATTERN \o <<" ", "n">>

\* # gitops-replacer:   -- the literal with no name after it: no marker
MarkerBare == <<"#", " ">> \o MARKER_PATTERN

\* k: v
LinePlain == <<"k", ":", " ", "v">>

\* k: <dq>v<dq>
LineDouble == <<"k", ":", " ", "\"", "v", "\"">>

\* k: 'v'  # c
LineSingleComment == <<"k", ":", " ", "'", "v", "'", " ", " ", "#", " ", "c">>

\*   - k: v
LineListItem == <<" ", " ", "-", " ", "k", ":", " ", "v">>

\* k: v  # c
LineComment == <<"k", ":", " ", "v", " ", " ", "#", " ", "c">>

\* k: w
LineNew == <<"k", ":", " ", "w">>

\* k: v <CR>
LineTrailingBlank == <<"k", ":", " ", "v", " ", "\r">>

\* k: v<dq>
LineCloseOnly == <<"k", ":", " ", "v", "\"">>

\* k:
LineEmptyValue == <<"k", ":">>

\* (empty line)
LineBlank == <<>>

\* # c
LineOnlyComment == <<"#", " ", "c">>

\* k.x: v
LineDottedKey == <<"k", ".", "x", ":", " ", "v">>

\* k: <dq>v<dq> x
LineJunkAfterQuote == <<"k", ":", " ", "\"", "v", "\"", " ", "x">>

MarkerLines == {MarkerN, MarkerNN, MarkerM, MarkerTail, MarkerBare}

ValueLines ==
    {LinePlain, LineDouble, LineSingleComment, LineListItem, LineComment,
     LineNew, LineTrailingBlank, LineCloseOnly, LineEmptyValue}

OtherLines == {LineBlank, LineOnlyComment, LineDottedKey, LineJunkAfterQuote}

Lines == MarkerLines \cup ValueLines \cup OtherLines

\* A block is one line, or a marker for n with the line after it.
Blocks ==
    {<<l>> : l \in Lines} \cup {<<MarkerN, l>> : l \in ValueLines \cup OtherLines}

\* The number of blocks a content is made of.
MaxBlocks == 2

RECURSIVE LinesUpTo(_)
LinesUpTo(n) ==
    IF n = 0 THEN {<<>>}
    ELSE LET shorter == LinesUpTo(n - 1)
         IN  shorter \cup {ls \o b : ls \in shorter, b \in Blocks}

Contents == {join(ls) : ls \in LinesUpTo(MaxBlocks)}

\* depName of the patched target
DepNames == {<<"n">>, <<"n", "n">>}

\* New values: plain ones (w, v, the empty string) and ones that hold a blank at
\* an end, a '#', a quote or a newline.
NewValues ==
    {<<"w">>, <<"v">>, <<>>, <<"w", " ">>, <<" ", "w">>, <<"w", "#">>,
     <<"\"", "w">>, <<"w", "\n">>}

(***************************************************************************)
(* main() (lines 96-333): start-up checks, the precheck loop, the apply    *)
(* loop. Repository, branch and file names are only compared, so they are  *)
(* plain strings; references and patterns are matched, so they are         *)
(* character sequences.                                                    *)
(***************************************************************************)
RefMain == <<"r", "e", "f", "s", "/", "h", "e", "a", "d", "s", "/", "m", "a", "i", "n">>

RefTag == <<"r", "e", "f", "s", "/", "t", "a", "g", "s", "/", "v", "1">>

RefDev == <<"r", "e", "f", "s", "/", "h", "e", "a", "d", "s", "/", "d", "e", "v">>

\* refs/heads/main
PatMain == <<"r", "e", "f", "s", "/", "h", "e", "a", "d", "s", "/", "m", "a", "i", "n">>

\* refs/tags/ followed by anything
PatTags == <<"r", "e", "f", "s", "/", "t", "a", "g", "s", "/", ".", "*">>

\* refs/ followed by anything
PatAny == <<"r", "e", "f", "s", "/", ".", "*">>

\* Values of an environment variable: unset, set to the empty string, set.
EnvRefs == {None, Some(<<>>), Some(RefMain), Some(RefDev), Some(RefTag)}

EnvTokens == {None, Some(<<>>), Some(<<"t">>)}

\* os.getenv(name, default): the variable's value when it is set
getenv(variable, default) == IF variable.some THEN variable ELSE default

\* Python truth of an optional string: None and the empty string are false
truthy(x) == x.some /\ x.val # <<>>

\* git_ref or ""
or_empty(x) == IF truthy(x) THEN x.val ELSE <<>>

(***************************************************************************)
(* re.match(pattern, string) for patterns made of literal characters, the  *)
(* dot and the star: a match of the pattern at the start of the string     *)
(* (nothing anchors the end).                                              *)
(***************************************************************************)
elem_match(c, x) == (c = "." /\ x # "\n") \/ c = x

RECURSIVE match_here(_, _, _, _)
match_here(p, i, s, j) ==
    IF i > Len(p) THEN TRUE
    ELSE IF i + 1 <= Len(p) /\ p[i + 1] = "*"
    THEN \/ match_here(p, i + 2, s, j)
         \/ j <= Len(s) /\ elem_match(p[i], s[j]) /\ match_here(p, i, s, j + 1)
    ELSE j <= Len(s) /\ elem_match(p[i], s[j]) /\ match_here(p, i + 1, s, j + 1)

re_match(pattern, string) == match_here(pattern, 1, string, 1)

\* One entry of config['gitops-replacer']; when and except may be missing.
Target(file, depName, when, except) ==
    [repository |-> "org/repo", branch |-> "main", file |-> file,
     depName |-> depName, when |-> when, except |-> except]

TargetSet ==
    {Target("a.yaml", <<"n">>, None, None),
     Target("a.yaml", <<"m">>, None, None),
     Target("b.yaml", <<"n">>, None, None),
     Target("b.yaml", <<"m">>, Some(PatAny), Some(PatTags)),
     Target("c.yaml", <<"n">>, Some(PatMain), None),
     Target("c.yaml", <<"n">>, None, Some(PatTags))}

\* The number of entries of the configuration's target list.
MaxTargets == 3

Configs == UNION {[1..n -> TargetSet] : n \in 0..MaxTargets}

\* line 207 and 254: the key of the cache
cache_key(repo) == <<repo.repository, repo.branch, repo.file>>

Keys == {cache_key(t) : t \in TargetSet}

\* The remote files when the run starts: a.yaml holds markers n and m, b.yaml
\* holds marker n with the new value already set, c.yaml holds marker n.
FileA == join(<<MarkerN, LineComment, MarkerM, LineDouble>>)

FileB == join(<<MarkerN, LineNew>>)

FileC == join(<<LineOnlyComment, MarkerN, LineListItem>>)

RemoteFiles ==
    [k \in Keys |->
        [content |-> IF k[3] = "a.yaml" THEN FileA
                     ELSE IF k[3] = "b.yaml" THEN FileB ELSE FileC,
         sha |-> 0]]

\* args.value
ArgValues == {<<"w">>}

\* Status codes of the Repository Client's answers.
GetStatuses == {200, 401, 404, 500}

PutFailures == {500}

\* line 282 for the files as the run finds them: the patcher's result for every
\* such content, name and value
RECURSIVE tabulate(_)
tabulate(inputs) ==
    IF inputs = {} THEN <<>>
    ELSE LET x == CHOOSE x \in inputs : TRUE
         IN  (x :> replace_marked_value(x[1], x[2], x[3])) @@ tabulate(inputs \ {x})

patch_table ==
    tabulate({RemoteFiles[k].content : k \in Keys}
             \X {t.depName : t \in TargetSet} \X ArgValues)

VARIABLES
    pc,          \* where main() is: start, load, precheck, apply, exit
    args,        \* the parsed command line: apply, ci, value
    git_ref,     \* line 158
    config,      \* config['gitops-replacer']
    i,           \* the position of the running loop in config (from 1)
    cache,       \* line 201: cache_key -> the cached response, None when absent
    exit_code,   \* line 188
    exit_status, \* <<status>> once the process has ended, <<>> while it runs
    exit_line,   \* the source line of the sys.exit that ended it, 0 while it runs
    remote,      \* the remote repository: key -> content and content hash
    response,    \* the status code of the last answer of the Repository Client
    calls,       \* the calls made to the Repository Client, in order
    cache_writes,\* how often line 227 assigned each key
    outcome,     \* what was reported for each target
    patches      \* patch_table, computed once when the run starts

main_vars ==
    <<pc, args, git_ref, config, i, cache, exit_code, exit_status, exit_line,
      remote, response, calls, cache_writes, outcome, patches>>

\* The patcher on its own (SpecPatch): its input, the result list of the first
\* application (line 91, before the join), and what replace_marked_value
\* returns when applied once and twice.
VARIABLES patch_pc, patch_in, patch_lines, patch_out, patch_again

patch_vars == <<patch_pc, patch_in, patch_lines, patch_out, patch_again>>

NoResult == [content |-> <<>>, old_value |-> None, changed |-> FALSE]

vars == <<main_vars, patch_vars>>

PatchIdle ==
    /\ patch_pc = "idle"
    /\ patch_in = [content |-> <<>>, dep_name |-> <<>>, new_value |-> <<>>]
    /\ patch_lines = <<>>
    /\ patch_out = NoResult
    /\ patch_again = NoResult

MainInit ==
    /\ pc = "start"
    /\ args = [apply |-> FALSE, ci |-> FALSE, value |-> <<>>]
    /\ git_ref = None
    /\ config = <<>>
    /\ i = 1
    /\ cache = [k \in Keys |-> None]
    /\ exit_code = 0
    /\ exit_status = <<>>
    /\ exit_line = 0
    /\ remote = RemoteFiles
    /\ response = 0
    /\ calls = <<>>
    /\ cache_writes = [k \in Keys |-> 0]
    /\ outcome = <<>>
    /\ patches = patch_table

\* sys.exit(code) at the given source line
sys_exit(code, line) ==
    /\ pc' = "exit"
    /\ exit_status' = <<code>>
    /\ exit_line' = line

running == UNCHANGED <<exit_status, exit_line>>

\* Start without lines 166-168: --ci mode runs without a reference
Start_without_ref_check ==
    /\ pc = "start"
    /\ \E apply \in BOOLEAN, ci \in BOOLEAN, value \in ArgValues,
          GITHUB_REF \in EnvRefs, GIT_REF \in EnvRefs, GITHUB_TOKEN \in EnvTokens :
          LET ref == getenv(GITHUB_REF, getenv(GIT_REF, None))
          IN  /\ args' = [apply |-> apply, ci |-> ci, value |-> value]
              /\ git_ref' = ref
              /\ IF ~truthy(GITHUB_TOKEN) THEN sys_exit(1, 164)
                 ELSE pc' = "load" /\ running
    /\ UNCHANGED <<config, i, cache, exit_code, remote, response, calls,
                   cache_writes, outcome, patches, patch_vars>>

(***************************************************************************)
(* Lines 155-168: the command line and the environment are read, the token *)
(* and, in --ci mode, the reference must be set.                           *)
(***************************************************************************)
Start ==
    /\ pc = "start"
    /\ \E apply \in BOOLEAN, ci \in BOOLEAN, value \in ArgValues,
          GITHUB_REF \in EnvRefs, GIT_REF \in EnvRefs, GITHUB_TOKEN \in EnvTokens :
          LET ref == getenv(GITHUB_REF, getenv(GIT_REF, None))
          IN  /\ args' = [apply |-> apply, ci |-> ci, value |-> value]
              /\ git_ref' = ref
              /\ IF ~truthy(GITHUB_TOKEN) THEN sys_exit(1, 164)
                 ELSE IF ci /\ ~truthy(ref) THEN sys_exit(1, 168)
                 ELSE pc' = "load" /\ running
    /\ UNCHANGED <<config, i, cache, exit_code, remote, response, calls,
                   cache_writes, outcome, patches, patch_vars>>

(***************************************************************************)
(* Lines 170-188: the configuration file is loaded.                        *)
(***************************************************************************)
LoadConfig ==
    /\ pc = "load"
    /\ \E exists \in BOOLEAN, has_entry \in BOOLEAN, entries \in Configs :
          IF ~exists THEN sys_exit(1, 173) /\ UNCHANGED <<config, outcome>>
          ELSE IF ~has_entry THEN sys_exit(0, 183) /\ UNCHANGED <<config, outcome>>
          ELSE /\ config' = entries
               /\ outcome' = [t \in 1..Len(entries) |-> "pending"]
               /\ pc' = "precheck"
               /\ running
    /\ UNCHANGED <<args, git_ref, i, cache, exit_code, remote, response, calls,
                   cache_writes, patches, patch_vars>>

\* Precheck with a break after a failed fetch
Precheck_stops_at_failure ==
    /\ pc = "precheck"
    /\ i <= Len(config)
    /\ LET repo == config[i]
           key  == cache_key(repo)
       IN  \E status \in GetStatuses :
              /\ calls' = Append(calls, [op |-> "GET", target |-> i, key |-> key])
              /\ response' = status
              /\ IF status = 401 \/ status = 404 \/ status # 200
                 THEN /\ exit_code' = 1
                      /\ outcome' = [outcome EXCEPT ![i] = "validation_error"]
                      /\ i' = Len(config) + 1
                      /\ UNCHANGED <<cache, cache_writes>>
                 ELSE /\ cache' = [cache EXCEPT ![key] = Some(remote[key])]
                      /\ cache_writes' = [cache_writes EXCEPT ![key] = @ + 1]
                      /\ outcome' = [outcome EXCEPT ![i] = "validated"]
                      /\ i' = i + 1
                      /\ UNCHANGED exit_code
    /\ UNCHANGED <<pc, args, git_ref, config, exit_status, exit_line, remote,
                   patches, patch_vars>>

\* Precheck without line 227: nothing is cached
Precheck_without_cache ==
    /\ pc = "precheck"
    /\ i <= Len(config)
    /\ LET repo == config[i]
           key  == cache_key(repo)
       IN  \E status \in GetStatuses :
              /\ calls' = Append(calls, [op |-> "GET", target |-> i, key |-> key])
              /\ response' = status
              /\ IF status = 401 \/ status = 404 \/ status # 200
                 THEN /\ exit_code' = 1
                      /\ outcome' = [outcome EXCEPT ![i] = "validation_error"]
                 ELSE /\ outcome' = [outcome EXCEPT ![i] = "validated"]
                      /\ UNCHANGED exit_code
    /\ i' = i + 1
    /\ UNCHANGED <<pc, args, git_ref, config, exit_status, exit_line, remote,
                   cache, cache_writes, patches, patch_vars>>

(***************************************************************************)
(* Lines 202-227: one iteration of the precheck loop.                      *)
(***************************************************************************)
Precheck ==
    /\ pc = "precheck"
    /\ i <= Len(config)
    /\ LET repo == config[i]
           key  == cache_key(repo)
       IN  \E status \in GetStatuses :
              /\ calls' = Append(calls, [op |-> "GET", target |-> i, key |-> key])
              /\ response' = status
              /\ IF status = 401 \/ status = 404 \/ status # 200
                 THEN /\ exit_code' = 1
                      /\ outcome' = [outcome EXCEPT ![i] = "validation_error"]
                      /\ UNCHANGED <<cache, cache_writes>>
                 ELSE /\ cache' = [cache EXCEPT ![key] = Some(remote[key])]
                      /\ cache_writes' = [cache_writes EXCEPT ![key] = @ + 1]
                      /\ outcome' = [outcome EXCEPT ![i] = "validated"]
                      /\ UNCHANGED exit_code
    /\ i' = i + 1
    /\ UNCHANGED <<pc, args, git_ref, config, exit_status, exit_line, remote,
                   patches, patch_vars>>

\* PrecheckEnd without lines 229-230: the replace block is entered whatever
\* exit_code is.
PrecheckEnd_keeps_going ==
    /\ pc = "precheck"
    /\ i > Len(config)
    /\ pc' = "apply" /\ i' = 1 /\ running
    /\ UNCHANGED <<args, git_ref, config, cache, exit_code, remote, response, calls,
                   cache_writes, outcome, patches, patch_vars>>

\* lines 229-230, and the start of the replace block at line 233
PrecheckEnd ==
    /\ pc = "precheck"
    /\ i > Len(config)
    /\ IF exit_code # 0
       THEN sys_exit(exit_code, 230) /\ UNCHANGED i
       ELSE pc' = "apply" /\ i' = 1 /\ running
    /\ UNCHANGED <<args, git_ref, config, cache, exit_code, remote, response, calls,
                   cache_writes, outcome, patches, patch_vars>>

(***************************************************************************)
(* The Repository Client's answer to a write (lines 308-322): the write is *)
(* accepted when the sha it carries is the file's current one, unless the  *)
(* service fails; a write that carries another sha is a conflict.          *)
(***************************************************************************)
put_statuses(key, sha) ==
    IF sha = remote[key].sha THEN {200} \cup PutFailures ELSE {409}

\* line 255 with the cache never consulted
cached_never(key) == FALSE

\* line 255: cache_key in cache
cached(key) == cache[key].some

\* gate_skips with except looked at only when the target has no when
gate_skips_when_first(repo) ==
    /\ args.ci
    /\ IF repo.when.some
       THEN ~re_match(repo.when.val, or_empty(git_ref))
       ELSE repo.except.some /\ re_match(repo.except.val, or_empty(git_ref))

\* lines 239-251: the target is skipped in --ci mode by when or by except
gate_skips(repo) ==
    /\ args.ci
    /\ \/ repo.when.some /\ ~re_match(repo.when.val, or_empty(git_ref))
       \/ repo.except.some /\ re_match(repo.except.val, or_empty(git_ref))

\* write_back without lines 302-303: the write is sent in preview mode too
write_back_in_preview(repo, fetch_json, sent, status, r) ==
    IF ~r.old_value.some \/ ~r.changed
    THEN /\ outcome' = [outcome EXCEPT ![i] =
                           IF ~r.old_value.some THEN "no_marker"
                           ELSE IF ~r.changed THEN "unchanged"
                           ELSE "change_detected"]
         /\ calls' = sent
         /\ response' = status
         /\ UNCHANGED <<remote, exit_code>>
    ELSE \E update \in put_statuses(cache_key(repo), fetch_json.sha) :
            /\ calls' = Append(sent, [op |-> "PUT", target |-> i,
                                      key |-> cache_key(repo),
                                      sha |-> fetch_json.sha,
                                      content |-> r.content])
            /\ response' = update
            /\ IF update \notin {200, 201}
               THEN /\ exit_code' = 1
                    /\ outcome' = [outcome EXCEPT ![i] = "error"]
                    /\ UNCHANGED remote
               ELSE /\ remote' = [remote EXCEPT ![cache_key(repo)] =
                                     [content |-> r.content, sha |-> @.sha + 1]]
                    /\ outcome' = [outcome EXCEPT ![i] = "applied"]
                    /\ UNCHANGED exit_code

\* write_back without lines 330-331: a refused write leaves exit_code alone
write_back_ignores_status(repo, fetch_json, sent, status, r) ==
    IF ~r.old_value.some \/ ~r.changed \/ ~args.apply
    THEN /\ outcome' = [outcome EXCEPT ![i] =
                           IF ~r.old_value.some THEN "no_marker"
                           ELSE IF ~r.changed THEN "unchanged"
                           ELSE "change_detected"]
         /\ calls' = sent
         /\ response' = status
         /\ UNCHANGED <<remote, exit_code>>
    ELSE \E update \in put_statuses(cache_key(repo), fetch_json.sha) :
            /\ calls' = Append(sent, [op |-> "PUT", target |-> i,
                                      key |-> cache_key(repo),
                                      sha |-> fetch_json.sha,
                                      content |-> r.content])
            /\ response' = update
            /\ IF update \notin {200, 201}
               THEN /\ outcome' = [outcome EXCEPT ![i] = "error"]
                    /\ UNCHANGED <<remote, exit_code>>
               ELSE /\ remote' = [remote EXCEPT ![cache_key(repo)] =
                                     [content |-> r.content, sha |-> @.sha + 1]]
                    /\ outcome' = [outcome EXCEPT ![i] = "applied"]
                    /\ UNCHANGED exit_code

\* lines 284-331: r is the patcher's result; sent and status are the calls and
\* the last status before this step
write_back(repo, fetch_json, sent, status, r) ==
    IF ~r.old_value.some \/ ~r.changed \/ ~args.apply
    THEN /\ outcome' = [outcome EXCEPT ![i] =
                           IF ~r.old_value.some THEN "no_marker"
                           ELSE IF ~r.changed THEN "unchanged"
                           ELSE "change_detected"]
         /\ calls' = sent
         /\ response' = status
         /\ UNCHANGED <<remote, exit_code>>
    ELSE \E update \in put_statuses(cache_key(repo), fetch_json.sha) :
            /\ calls' = Append(sent, [op |-> "PUT", target |-> i,
                                      key |-> cache_key(repo),
                                      sha |-> fetch_json.sha,
                                      content |-> r.content])
            /\ response' = update
            /\ IF update \notin {200, 201}
               THEN /\ exit_code' = 1
                    /\ outcome' = [outcome EXCEPT ![i] = "error"]
                    /\ UNCHANGED remote
               ELSE /\ remote' = [remote EXCEPT ![cache_key(repo)] =
                                     [content |-> r.content, sha |-> @.sha + 1]]
                    /\ outcome' = [outcome EXCEPT ![i] = "applied"]
                    /\ UNCHANGED exit_code

\* line 282: replace_marked_value(content_original, dep_name, args.value)
patch_of(content, dep_name, new_value) ==
    IF <<content, dep_name, new_value>> \in DOMAIN patches
    THEN patches[<<content, dep_name, new_value>>]
    ELSE replace_marked_value(content, dep_name, new_value)

\* lines 273-331: patch the fetched content and, in apply mode, write it back
patch_and_write(repo, fetch_json, sent, status) ==
    write_back(repo, fetch_json, sent, status,
               patch_of(fetch_json.content, repo.depName, args.value))

\* Apply with the loop left after a target without marker
Apply_stops_at_no_marker ==
    /\ pc = "apply"
    /\ i <= Len(config)
    /\ LET repo == config[i]
           key  == cache_key(repo)
       IN  IF gate_skips(repo)
           THEN /\ outcome' = [outcome EXCEPT ![i] = "skipped"]
                /\ UNCHANGED <<calls, response, remote, exit_code>>
           ELSE IF cached(key)
           THEN patch_and_write(repo, cache[key].val, calls, response)
           ELSE \E fetch \in GetStatuses :
                   LET sent == Append(calls, [op |-> "GET", target |-> i, key |-> key])
                   IN  IF fetch # 200
                       THEN /\ exit_code' = 1
                            /\ outcome' = [outcome EXCEPT ![i] = "error"]
                            /\ calls' = sent
                            /\ response' = fetch
                            /\ UNCHANGED remote
                       ELSE patch_and_write(repo, remote[key], sent, fetch)
    /\ i' = IF outcome'[i] = "no_marker" THEN Len(config) + 1 ELSE i + 1
    /\ UNCHANGED <<pc, args, git_ref, config, cache, cache_writes, exit_status,
                   exit_line, patches, patch_vars>>

(***************************************************************************)
(* Lines 233-331: one iteration of the replace loop.                       *)
(***************************************************************************)
Apply ==
    /\ pc = "apply"
    /\ i <= Len(config)
    /\ LET repo == config[i]
           key  == cache_key(repo)
       IN  IF gate_skips(repo)
           THEN /\ outcome' = [outcome EXCEPT ![i] = "skipped"]
                /\ UNCHANGED <<calls, response, remote, exit_code>>
           ELSE IF cached(key)
           THEN patch_and_write(repo, cache[key].val, calls, response)
           ELSE \E fetch \in GetStatuses :
                   LET sent == Append(calls, [op |-> "GET", target |-> i, key |-> key])
                   IN  IF fetch # 200
                       THEN /\ exit_code' = 1
                            /\ outcome' = [outcome EXCEPT ![i] = "error"]
                            /\ calls' = sent
                            /\ response' = fetch
                            /\ UNCHANGED remote
                       ELSE patch_and_write(repo, remote[key], sent, fetch)
    /\ i' = i + 1
    /\ UNCHANGED <<pc, args, git_ref, config, cache, cache_writes, exit_status,
                   exit_line, patches, patch_vars>>

\* Exit taken one target early
Exit_before_last ==
    /\ pc = "apply"
    /\ i >= Len(config)
    /\ sys_exit(exit_code, 333)
    /\ UNCHANGED <<args, git_ref, config, i, cache, exit_code, remote, response,
                   calls, cache_writes, outcome, patches, patch_vars>>

\* line 333
Exit ==
    /\ pc = "apply"
    /\ i > Len(config)
    /\ sys_exit(exit_code, 333)
    /\ UNCHANGED <<args, git_ref, config, i, cache, exit_code, remote, response,
                   calls, cache_writes, outcome, patches, patch_vars>>

Init == MainInit /\ PatchIdle

Next == Start \/ LoadConfig \/ Precheck \/ PrecheckEnd \/ Apply \/ Exit

Spec == Init /\ [][Next]_vars

\* main() is one sequential process: a step that can be taken is taken.
SpecFair == Spec /\ WF_vars(Next)

(***************************************************************************)
(* The patcher on its own: replace_marked_value applied to an input, and   *)
(* applied again to its own output.                                        *)
(***************************************************************************)
PatchInit ==
    /\ patch_pc = "input"
    /\ patch_in \in [content : Contents, dep_name : DepNames, new_value : NewValues]
    /\ patch_lines = <<>>
    /\ patch_out = NoResult
    /\ patch_again = NoResult
    /\ MainInit

PatchOnce ==
    /\ patch_pc = "input"
    /\ patch_out' = replace_marked_value(patch_in.content, patch_in.dep_name,
                                         patch_in.new_value)
    /\ patch_lines' = scan(patch_in.content, patch_in.dep_name,
                            patch_in.new_value).result
    /\ patch_pc' = "patched"
    /\ UNCHANGED <<patch_in, patch_again, main_vars>>

PatchTwice ==
    /\ patch_pc = "patched"
    /\ patch_again' = replace_marked_value(patch_out.content, patch_in.dep_name,
                                           patch_in.new_value)
    /\ patch_pc' = "repatched"
    /\ UNCHANGED <<patch_in, patch_lines, patch_out, main_vars>>

PatchNext == PatchOnce \/ PatchTwice

SpecPatch == PatchInit /\ [][PatchNext]_vars

(***************************************************************************)
(* Properties of the batch run (Spec).                                     *)
(***************************************************************************)
Reported(what) == {t \in DOMAIN outcome : outcome[t] = what}

Puts == {c \in DOMAIN calls : calls[c].op = "PUT"}

Gets(k) == Cardinality({c \in DOMAIN calls : calls[c].op = "GET" /\ calls[c].key = k})

Naming(k) == Cardinality({t \in DOMAIN config : cache_key(config[t]) = k})

\* C1: once a precheck fetch of any target has returned a status other than
\* 200, the run is never in the apply phase, has made no write call for any
\* target, and ends with a non-zero status.
C1_PrecheckFailureStopsTheRun ==
    Reported("validation_error") # {} =>
        /\ pc # "apply"
        /\ Puts = {}
        /\ pc = "exit" => exit_status # <<0>> /\ exit_line = 230

\* Three targets that would all be written in apply mode; the second is not
\* validated, the run has ended.
C1_Witness ==
    /\ pc = "exit"
    /\ args.apply
    /\ outcome = <<"validated", "validation_error", "validated">>
    /\ config[1].file = "a.yaml" /\ config[3].file = "c.yaml"

\* C2: in preview mode (no --apply) no write call is made in any state of the
\* run and the remote files stay as they were.
C2_PreviewNeverWrites ==
    ~args.apply => Puts = {} /\ remote = RemoteFiles

C2_Witness ==
    /\ pc = "exit"
    /\ ~args.apply
    /\ Reported("change_detected") # {}

\* C3 as stated: the process fails if and only if some target recorded a
\* validation error in precheck or a fetch or write error in apply.
C3_FailsIffATargetFailed ==
    pc = "exit" =>
        (exit_status # <<0>> <=>
            Reported("validation_error") \cup Reported("error") # {})

\* C3, amended: the process fails if and only if a start-up check failed (no
\* token at line 164, no reference in --ci mode at line 168, no configuration
\* file at line 173) or some target recorded a validation error in precheck or
\* a fetch or write error in apply.
C3_FailsIffStartupOrATargetFailed ==
    pc = "exit" =>
        (exit_status # <<0>> <=>
            \/ exit_line \in {164, 168, 173}
            \/ Reported("validation_error") \cup Reported("error") # {})

\* A run that ends with status 0 after one target was skipped by the gate, one
\* had no outstanding change and one was written.
C3_Witness ==
    /\ pc = "exit"
    /\ exit_status = <<0>>
    /\ Reported("skipped") # {}
    /\ Reported("unchanged") # {}
    /\ Reported("applied") # {}

\* C10 as stated: each key is fetched at most once and its cache entry is
\* written at most once in a run.
C10_OneFetchPerKey ==
    \A k \in Keys : Gets(k) <= 1 /\ cache_writes[k] <= 1

\* C10, amended: a key is fetched once for each target of the list that names
\* it, never more, all of it in precheck, and its cache entry is written once
\* for each of these fetches that succeeds; only a key that one target names
\* is fetched at most once.
C10_OneFetchPerTarget ==
    \A k \in Keys :
        /\ Gets(k) <= Naming(k)
        /\ cache_writes[k] <= Gets(k)
        /\ pc = "apply" \/ (pc = "exit" /\ exit_line \in {230, 333}) =>
               Gets(k) = Naming(k)
        /\ pc = "apply" \/ (pc = "exit" /\ exit_line = 333) =>
               cache_writes[k] = Naming(k)

\* Two targets name the same file: it was fetched twice and cached twice.
C10_Witness ==
    /\ pc = "exit"
    /\ \E k \in Keys : Gets(k) = 2 /\ cache_writes[k] = 2

\* The targets the replace loop has dealt with.
Done ==
    IF pc = "apply" THEN 1..(i - 1)
    ELSE IF pc = "exit" /\ exit_line = 333 THEN DOMAIN config
    ELSE {}

\* The literal text a pattern starts with (a trailing dot-star taken off).
Literal(p) ==
    IF Len(p) >= 2 /\ p[Len(p) - 1] = "." /\ p[Len(p)] = "*"
    THEN SubSeq(p, 1, Len(p) - 2)
    ELSE p

\* The reference matches the pattern at the start of the string.
MatchesAtStart(p, s) ==
    Len(s) >= Len(Literal(p)) /\ SubSeq(s, 1, Len(Literal(p))) = Literal(p)

\* The reference string, empty when the reference is absent.
RefString == IF git_ref.some THEN git_ref.val ELSE <<>>

\* What C11 requires of a target to get past the gate.
Eligible(t) ==
    \/ ~args.ci
    \/ /\ ~t.when.some \/ MatchesAtStart(t.when.val, RefString)
       /\ ~t.except.some \/ ~MatchesAtStart(t.except.val, RefString)

\* C11: a target the replace loop has dealt with got past the gate (was not
\* reported as skipped) if and only if the run is not in --ci mode, or the
\* reference matches its when pattern (if it has one) at the start and does not
\* match its except pattern (if it has one); and every write call is for a
\* target that got past the gate.
C11_GateDecidesEligibility ==
    /\ \A t \in Done : outcome[t] # "skipped" <=> Eligible(config[t])
    /\ \A c \in Puts : Eligible(config[calls[c].target])
                       /\ outcome[calls[c].target] # "skipped"

\* A --ci run on a tag: a target whose when pattern matches is skipped by its
\* except pattern, and a target without patterns is written.
C11_Witness ==
    /\ pc = "exit"
    /\ args.ci
    /\ git_ref = Some(RefTag)
    /\ \E t \in DOMAIN config :
          /\ config[t].when = Some(PatAny)
          /\ config[t].except = Some(PatTags)
          /\ outcome[t] = "skipped"
    /\ Reported("applied") # {}

\* C12 as stated: a --ci run with the reference absent is not ended for that;
\* it goes on to precheck and apply.
C12_AbsentRefStillRuns ==
    (args.ci /\ ~git_ref.some) => exit_line # 168

\* C12, amended: a --ci run with the reference absent or empty ends with status
\* 1 before the configuration is read: no target is fetched, gated or patched.
C12_AbsentRefEndsTheRun ==
    (pc # "start" /\ args.ci /\ ~truthy(git_ref)) =>
        /\ pc = "exit"
        /\ exit_status = <<1>>
        /\ exit_line \in {164, 168}
        /\ config = <<>>
        /\ calls = <<>>

\* The token is set, --ci is given, the reference is absent: ended at line 168.
C12_Witness ==
    /\ pc = "exit"
    /\ args.ci
    /\ ~git_ref.some
    /\ exit_line = 168

\* The fetch calls, in the order they were made.
GetCalls == SelectSeq(calls, LAMBDA c : c.op = "GET")

\* How many targets the precheck loop has dealt with.
Prechecked ==
    IF pc = "precheck" THEN i - 1
    ELSE IF pc = "apply" \/ (pc = "exit" /\ exit_line \in {230, 333}) THEN Len(config)
    ELSE 0

\* C13: the precheck loop fetches once for every target it has passed, failed
\* targets and targets after a failed one included: when the run ends at line
\* 230 or enters the apply phase, exactly one fetch was made for each target of
\* the list.
C13_PrecheckFetchesEveryTarget ==
    /\ Len(GetCalls) = Prechecked
    /\ \A t \in 1..Prechecked : GetCalls[t].target = t

\* The first precheck failed, the two targets after it were fetched all the
\* same, one with success and one without, and the run ended at line 230.
C13_Witness ==
    /\ pc = "exit"
    /\ exit_line = 230
    /\ outcome = <<"validation_error", "validated", "validation_error">>
    /\ Len(GetCalls) = 3

\* The outcomes a target can end with in the apply phase.
FinalOutcomes ==
    {"skipped", "no_marker", "unchanged", "change_detected", "applied", "error"}

PutsFor(t) == {c \in Puts : calls[c].target = t}

\* The patcher's result on the file a target names, as the run found it.
Patched(t) ==
    replace_marked_value(RemoteFiles[cache_key(t)].content, t.depName, args.value)

\* C14: in the apply phase every target up to the loop's position has ended
\* with an outcome of its own, whatever the targets before it ended with, and
\* was written exactly if it got past the gate, its value changed and the run is
\* in apply mode; the targets after the position are still to come, and the run
\* ends at line 333 only when all are done.
C14_BatchGoesOn ==
    /\ \A t \in Done :
          /\ outcome[t] \in FinalOutcomes
          /\ PutsFor(t) # {} <=>
                /\ args.apply
                /\ Eligible(config[t])
                /\ Patched(config[t]).old_value.some
                /\ Patched(config[t]).changed
    /\ pc = "apply" => \A t \in DOMAIN config \ Done : outcome[t] = "validated"

\* Three targets on three files, the second without marker: the first and the
\* third are written and the run ends with status 0.
C14_Witness ==
    /\ pc = "exit"
    /\ exit_status = <<0>>
    /\ outcome = <<"applied", "no_marker", "applied">>
    /\ Cardinality({config[t].file : t \in DOMAIN config}) = 3

\* C15: every fetch call comes before every write call, calls of the same kind
\* are made in the order of the target list, one per target, and a write call
\* for a target is made only after that target's fetch, with every precheck of
\* the run a success.
C15_FetchesThenWritesInListOrder ==
    /\ \A c, d \in DOMAIN calls :
          c < d =>
              /\ calls[c].op = "PUT" => calls[d].op = "PUT"
              /\ calls[c].op = calls[d].op => calls[c].target < calls[d].target
    /\ \A c \in Puts :
          /\ \E g \in 1..(c - 1) :
                calls[g].op = "GET" /\ calls[g].target = calls[c].target
          /\ Reported("validation_error") = {}
          /\ cache[calls[c].key].some

\* Three fetches followed by writes for the first and the third target.
C15_Witness ==
    /\ pc = "exit"
    /\ Len(calls) = 5
    /\ calls[4].op = "PUT" /\ calls[4].target = 1
    /\ calls[5].op = "PUT" /\ calls[5].target = 3

\* C16: once the apply phase is reached, the key of every target is in the
\* cache, so no fetch is made in the apply phase: the fetch calls of the run are
\* the first calls, one per target; and every write carries the content hash
\* cached for its key and the patch of the cached content.
C16_ApplyUsesThePrecheckCache ==
    (pc = "apply" \/ (pc = "exit" /\ exit_line = 333)) =>
        /\ \A t \in DOMAIN config : cache[cache_key(config[t])].some
        /\ Len(GetCalls) = Len(config)
        /\ \A c \in DOMAIN calls : calls[c].op = "GET" <=> c <= Len(config)
        /\ \A c \in Puts :
              /\ calls[c].sha = cache[calls[c].key].val.sha
              /\ calls[c].content =
                     replace_marked_value(cache[calls[c].key].val.content,
                                          config[calls[c].target].depName,
                                          args.value).content

\* A run of three targets that wrote at least one file and made three fetches.
C16_Witness ==
    /\ pc = "exit"
    /\ exit_line = 333
    /\ Len(config) = 3
    /\ Len(GetCalls) = 3
    /\ Puts # {}

\* C19: no write is rejected as a conflict, that is, every write carries the
\* content hash the remote file has at that moment, also when several targets
\* name the same file.
C19_NoWriteIsAConflict == response # 409

\* What holds of the targets' outcomes and writes in every state of a run.
OneOutcomePerTarget ==
    /\ \A t \in DOMAIN config : Cardinality(PutsFor(t)) <= 1
    /\ \A t \in Done :
          /\ outcome[t] \in FinalOutcomes
          /\ PutsFor(t) # {} <=> outcome[t] \in {"applied", "error"}
    /\ pc = "apply" =>
          \A t \in DOMAIN config \ Done : outcome[t] = "validated" /\ PutsFor(t) = {}

\* C20: every run ends; in a run that passes precheck every target of the list
\* ends with one of the outcomes skipped, no marker, unchanged, change detected,
\* applied or error, which is never replaced by another (no target is dealt
\* with twice), none is left out when the run ends at line 333, and at most one
\* write call is made for a target.
C20_EveryRunEndsEveryTargetOnce ==
    /\ <>(pc = "exit")
    /\ []OneOutcomePerTarget
    /\ [][\A t \in DOMAIN outcome :
             outcome[t] \in FinalOutcomes => outcome'[t] = outcome[t]]_vars

\* A finished run of three targets: one written, one refused, one without
\* marker.
C20_Witness ==
    /\ pc = "exit"
    /\ exit_line = 333
    /\ outcome = <<"applied", "error", "no_marker">>

(***************************************************************************)
(* Properties of the patcher (SpecPatch).                                  *)
(***************************************************************************)
InLines == split(patch_in.content)

OutLines == split(patch_out.content)

\* the line is a marker line whose name is n
HasMarker(line, n) == marker_search(line) = Some(n)

MarkerLinesOf(lines, n) == {k \in DOMAIN lines : HasMarker(lines[k], n)}

\* the lines that follow a marker line for n
MarkedLines(lines, n) == {k \in DOMAIN lines : k > 1 /\ HasMarker(lines[k - 1], n)}

WellFormed(line) == value_match(line).ok

\* the value of a well-formed line, as line 83 extracts it
ValueOf(line) == rstrip(value_match(line).value)

\* what follows the value on a well-formed line
AfterValue(line) == from(line, Len(value_match(line).prefix)
                               + Len(value_match(line).quote_open)
                               + Len(ValueOf(line)) + 1)

EndsWith(s, t) == Len(s) >= Len(t) /\ SubSeq(s, Len(s) - Len(t) + 1, Len(s)) = t

\* A plain value: no quote, no '#', no newline, no blank at either end.
Plain(v) ==
    /\ \A c \in DOMAIN v : v[c] \notin {"\"", "'", "#", "\n"}
    /\ v # <<>> => ~IsSpace(v[1]) /\ ~IsSpace(v[Len(v)])

\* C6: when no line of the content is a marker line whose name equals N (other
\* names, and names that N only starts, included), the patcher returns the
\* content as it was, old value None and changed false.
C6_NoMarkerNoChange ==
    (patch_pc # "input" /\ MarkerLinesOf(InLines, patch_in.dep_name) = {}) =>
        patch_out = [content |-> patch_in.content, old_value |-> None,
                     changed |-> FALSE]

\* The only marker names nn, the patcher is asked for n, and the line after the
\* marker is a value line with another value than the new one.
C6_Witness ==
    /\ patch_pc = "patched"
    /\ patch_in.dep_name = <<"n">>
    /\ patch_in.new_value = <<"w">>
    /\ InLines = <<MarkerNN, LinePlain>>

\* C9 as stated: with several markers for N at most one line of the file is
\* changed by a patch (checked for plain new values).
C9_AtMostOneLineChanges ==
    (patch_pc = "patched" /\ Plain(patch_in.new_value)) =>
        /\ Len(OutLines) = Len(InLines)
        /\ Cardinality({k \in DOMAIN InLines : OutLines[k] # InLines[k]}) <= 1

\* C9, amended: the line after every marker line for N is considered. Each such
\* line that is not itself a marker line for N, is well formed and holds another
\* value than V is rebuilt from its prefix, opening quote, V, closing quote and
\* comment; every other line of the result list is the input line, so at most
\* as many lines change as there are marker lines for N.
C9_EveryMarkerCounts ==
    patch_pc = "patched" =>
        /\ Len(patch_lines) = Len(InLines)
        /\ \A k \in DOMAIN InLines :
              IF /\ k \in MarkedLines(InLines, patch_in.dep_name)
                 /\ ~HasMarker(InLines[k], patch_in.dep_name)
                 /\ WellFormed(InLines[k])
                 /\ ValueOf(InLines[k]) # patch_in.new_value
              THEN patch_lines[k] =
                       value_match(InLines[k]).prefix
                       \o value_match(InLines[k]).quote_open
                       \o patch_in.new_value
                       \o value_match(InLines[k]).quote_close
                       \o value_match(InLines[k]).suffix
              ELSE patch_lines[k] = InLines[k]

\* Two markers for n, each followed by a value line: both value lines changed.
C9_Witness ==
    /\ patch_pc = "patched"
    /\ Cardinality(MarkerLinesOf(InLines, patch_in.dep_name)) = 2
    /\ Cardinality({k \in DOMAIN InLines : patch_lines[k] # InLines[k]}) = 2

\* the line after the one marker line of a content that has exactly one
TheMarked(lines, n) == 1 + CHOOSE k \in DOMAIN lines : HasMarker(lines[k], n)

\* exactly one marker line for the requested name, followed by a well-formed
\* value line
OneMarkedValue ==
    /\ Cardinality(MarkerLinesOf(InLines, patch_in.dep_name)) = 1
    /\ TheMarked(InLines, patch_in.dep_name) <= Len(InLines)
    /\ WellFormed(InLines[TheMarked(InLines, patch_in.dep_name)])

\* C4: patching a content whose one marker for N is followed by a well-formed
\* value line gives a content whose marked line holds the value V, with every
\* other line the same and the number and order of lines unchanged.
C4_MarkedLineHoldsNewValue ==
    (patch_pc = "patched" /\ OneMarkedValue) =>
        /\ Len(OutLines) = Len(InLines)
        /\ WellFormed(OutLines[TheMarked(InLines, patch_in.dep_name)])
        /\ ValueOf(OutLines[TheMarked(InLines, patch_in.dep_name)])
               = patch_in.new_value
        /\ \A j \in DOMAIN InLines :
              j # TheMarked(InLines, patch_in.dep_name) =>
                  OutLines[j] = InLines[j]

\* C5: patching the result of a patch again, with the same name and value,
\* returns the same content and reports no change.
C5_SecondPatchChangesNothing ==
    patch_pc = "repatched" =>
        /\ patch_again.content = patch_out.content
        /\ ~patch_again.changed

\* C7: a marked value line that carries an inline comment keeps everything
\* after its value, the separating whitespace included (checked for plain new
\* values and a single marker).
C7_CommentAndSpacingKept ==
    (/\ patch_pc = "patched"
     /\ Plain(patch_in.new_value)
     /\ OneMarkedValue
     /\ value_match(InLines[TheMarked(InLines, patch_in.dep_name)]).suffix
            # <<>>) =>
        EndsWith(OutLines[TheMarked(InLines, patch_in.dep_name)],
                 AfterValue(InLines[TheMarked(InLines, patch_in.dep_name)]))

\* C8: the patched value line has the quotes of the original one: the same
\* opening quote, the same closing quote, and an unquoted value stays unquoted
\* (checked for new values without a newline and a single marker).
C8_QuoteStyleKept ==
    (/\ patch_pc = "patched"
     /\ \A c \in DOMAIN patch_in.new_value : patch_in.new_value[c] # "\n"
     /\ OneMarkedValue) =>
        /\ WellFormed(OutLines[TheMarked(InLines, patch_in.dep_name)])
        /\ value_match(OutLines[TheMarked(InLines, patch_in.dep_name)]).quote_open
               = value_match(InLines[TheMarked(InLines, patch_in.dep_name)]).quote_open
        /\ value_match(OutLines[TheMarked(InLines, patch_in.dep_name)]).quote_close
               = value_match(InLines[TheMarked(InLines, patch_in.dep_name)]).quote_close

\* C17: the changed flag of the patcher is true exactly when the content it
\* returns differs from the content it was given, on the first application and
\* on the application to its own output.
C17_ChangedIffContentDiffers ==
    /\ patch_pc # "input" =>
          (patch_out.changed <=> patch_out.content # patch_in.content)
    /\ patch_pc = "repatched" =>
          (patch_again.changed <=> patch_again.content # patch_out.content)

\* the only marker for the requested name is the last line, or the line after
\* it is not a value line
OneMarkerNoValue ==
    /\ Cardinality(MarkerLinesOf(InLines, patch_in.dep_name)) = 1
    /\ \/ TheMarked(InLines, patch_in.dep_name) > Len(InLines)
       \/ ~WellFormed(InLines[TheMarked(InLines, patch_in.dep_name)])

====
